---- MODULE Spec2Model ----
(***************************************************************************)
(* Model of HFT::OrderBook (src/src/OrderBook.hpp) and HFT::Order          *)
(* (src/src/Order.hpp): a single-instrument limit order book with          *)
(* price-time priority matching.                                           *)
(*                                                                         *)
(* The book is single threaded.  addOrder is modelled as a sequence of     *)
(* steps (construction, one step per iteration of the matching loop, the   *)
(* final insertion of the residual) so that the moment of each trade is a  *)
(* state of the model; while an addOrder is running (pc # "idle") no other *)
(* operation can start.  cancelOrder and modifyOrder are single steps; the *)
(* value a call returns is an operator of the state the call starts in.    *)
(* The history variable `last` names the last call that succeeded; the     *)
(* book does not read it.                                                  *)
(***************************************************************************)
EXTENDS Integers, Sequences, FiniteSets

\* ---------------------------------------------------------------- bounds
MaxOrders == 3      \* number of addOrder calls explored
MaxPrice  == 1      \* prices are drawn from 0..MaxPrice
MaxQty    == 2      \* quantities are drawn from 0..MaxQty
MaxTs     == 2      \* timestamps are drawn from 1..MaxTs

Prices     == 0..MaxPrice
Quantities == 0..MaxQty
Timestamps == 1..MaxTs
Sides      == {"BUY", "SELL"}
\* ids a caller may pass to cancelOrder / modifyOrder: 0 is never issued
CallerIds  == 0..MaxOrders

\* ------------------------------------------------- uint32_t arithmetic
\* A uint32_t value v is the pair <<v \div 2^16, v % 2^16>> (TLC integers
\* are 32-bit signed, so 2^32 - 1 is not a TLC integer).
Base == 65536

U32(n) == <<n \div Base, n % Base>>

U32Add(a, b) ==
    LET lo == a[2] + b[2]
        hi == a[1] + b[1] + (lo \div Base)
    IN  <<hi % Base, lo % Base>>

U32Sub(a, b) ==
    LET lo == a[2] - b[2]
        borrow == IF lo < 0 THEN 1 ELSE 0
        hi == a[1] - b[1] - borrow
    IN  <<hi % Base, lo % Base>>

U32Less(a, b) == a[1] < b[1] \/ (a[1] = b[1] /\ a[2] < b[2])

U32Min(a, b) == IF U32Less(b, a) THEN b ELSE a

\* ------------------------------------------------------------- Order
\* Order::Order(id, ts, p, qty, s)
Order(id, ts, p, qty, s) ==
    [orderId |-> id, timestamp |-> ts, price |-> p, quantity |-> U32(qty),
     filledQuantity |-> U32(0), side |-> s, status |-> "NEW"]

getRemainingQuantity(o) == U32Sub(o.quantity, o.filledQuantity)

isFilled(o) == ~U32Less(o.filledQuantity, o.quantity)

fill(o, qty) ==
    LET o2 == [o EXCEPT !.filledQuantity = U32Add(o.filledQuantity, qty)]
    IN  [o2 EXCEPT !.status = IF isFilled(o2) THEN "FILLED" ELSE "PARTIAL_FILL"]

\* -------------------------------------------------------- PriceLevel
\* PriceLevel::PriceLevel(p)
PriceLevel(p) == [price |-> p, totalQuantity |-> U32(0), orders |-> <<>>]

\* PriceLevel::addOrder: push_back, totalQuantity += remaining
PriceLevel_addOrder(level, o) ==
    [level EXCEPT !.orders = Append(level.orders, o.orderId),
                  !.totalQuantity = U32Add(level.totalQuantity, getRemainingQuantity(o))]

\* PriceLevel::removeOrder: totalQuantity -= remaining, std::list::remove
PriceLevel_removeOrder(level, o) ==
    [level EXCEPT !.totalQuantity = U32Sub(level.totalQuantity, getRemainingQuantity(o)),
                  !.orders = SelectSeq(level.orders, LAMBDA x : x # o.orderId)]

isEmpty(level) == level.orders = <<>>

\* ---------------------------------------------------------- OrderBook
VARIABLES
    orders,       \* every Order object ever made, by id
    bids,         \* bid ladder: price key -> PriceLevel
    asks,         \* ask ladder: price key -> PriceLevel
    orderMap,     \* ids present in the id -> order lookup
    trades,       \* trade log
    nextOrderId,
    pc,           \* "idle", or the private method an addOrder call is in
    cur,          \* id of the order the running addOrder call is adding
    last          \* history: the last call that succeeded (addOrder,
                  \* cancelOrder or modifyOrder returning true) and its id

vars == <<orders, bids, asks, orderMap, trades, nextOrderId, pc, cur, last>>

\* std::map with an entry removed
Erase(ladder, key) == [k \in (DOMAIN ladder) \ {key} |-> ladder[k]]

\* std::map with an entry set
Put(ladder, key, level) ==
    [k \in (DOMAIN ladder) \cup {key} |-> IF k = key THEN level ELSE ladder[k]]

Max(S) == CHOOSE x \in S : \A y \in S : y <= x
Min(S) == CHOOSE x \in S : \A y \in S : x <= y

\* bids.begin(): std::greater, the highest key first
bidsBegin == Max(DOMAIN bids)

\* (as asksBegin, with the comparator of the bid ladder)
asksBegin_greater == Max(DOMAIN asks)

\* asks.begin(): std::less, the lowest key first
asksBegin == Min(DOMAIN asks)

getBestBid == IF DOMAIN bids = {} THEN 0 ELSE bidsBegin
getBestAsk == IF DOMAIN asks = {} THEN 0 ELSE asksBegin

\* getBidDepth / getAskDepth: the number of levels of a ladder
getBidDepth == Cardinality(DOMAIN bids)
getAskDepth == Cardinality(DOMAIN asks)

Init ==
    /\ orders = <<>>
    /\ bids = <<>>
    /\ asks = <<>>
    /\ orderMap = {}
    /\ trades = <<>>
    /\ nextOrderId = 1
    /\ pc = "idle"
    /\ cur = 0
    /\ last = [op |-> "none", id |-> 0]

\* (as addOrder, with ++nextOrderId for nextOrderId++: the id of the order is
\* the incremented counter)
addOrder_preIncrement(price, quantity, side, timestamp) ==
    /\ pc = "idle"
    /\ nextOrderId <= MaxOrders
    /\ orders' = Append(orders, Order(nextOrderId + 1, timestamp, price, quantity, side))
    /\ nextOrderId' = nextOrderId + 1
    /\ orderMap' = orderMap \cup {nextOrderId + 1}
    /\ cur' = nextOrderId
    /\ pc' = IF side = "BUY" THEN "addBuyOrder" ELSE "addSellOrder"
    /\ last' = [op |-> "addOrder", id |-> nextOrderId + 1]
    /\ UNCHANGED <<bids, asks, trades>>

\* addOrder, lines 58-65: make the order, register it and dispatch on side
addOrder(price, quantity, side, timestamp) ==
    /\ pc = "idle"
    /\ nextOrderId <= MaxOrders
    /\ orders' = Append(orders, Order(nextOrderId, timestamp, price, quantity, side))
    /\ nextOrderId' = nextOrderId + 1
    /\ orderMap' = orderMap \cup {nextOrderId}
    /\ cur' = nextOrderId
    /\ pc' = IF side = "BUY" THEN "addBuyOrder" ELSE "addSellOrder"
    /\ last' = [op |-> "addOrder", id |-> nextOrderId]
    /\ UNCHANGED <<bids, asks, trades>>

\* (as front, taking the back of the queue instead)
front_back(level) == orders[level.orders[Len(level.orders)]]

\* priceLevel->orders.front(), line 223
front(level) == orders[Head(level.orders)]

\* Trade::Trade
Trade(bid, sid, p, qty, ts) ==
    [buyOrderId |-> bid, sellOrderId |-> sid, price |-> p, quantity |-> qty,
     timestamp |-> ts]

\* (as recordTrade, with the price of the incoming order)
recordTrade_takerPrice(incoming, restingOrder, tradeQty) ==
    LET buyId  == IF incoming.side = "BUY" THEN incoming.orderId ELSE restingOrder.orderId
        sellId == IF incoming.side = "SELL" THEN incoming.orderId ELSE restingOrder.orderId
    IN  Trade(buyId, sellId, incoming.price, tradeQty, incoming.timestamp)

\* matchOrders, lines 233-236: the trade that is recorded
recordTrade(incoming, restingOrder, tradeQty) ==
    LET buyId  == IF incoming.side = "BUY" THEN incoming.orderId ELSE restingOrder.orderId
        sellId == IF incoming.side = "SELL" THEN incoming.orderId ELSE restingOrder.orderId
    IN  Trade(buyId, sellId, restingOrder.price, tradeQty, incoming.timestamp)

\* (as matchOrders, with the trade put at the front of the trade log)
matchOrders_prepend(incoming, level) ==
    LET restingOrder == front(level)
        tradeQty == U32Min(getRemainingQuantity(incoming),
                           getRemainingQuantity(restingOrder))
        inc2  == fill(incoming, tradeQty)
        rest2 == fill(restingOrder, tradeQty)
    IN  [level    |-> IF isFilled(rest2) THEN PriceLevel_removeOrder(level, rest2)
                      ELSE level,
         orders   |-> [orders EXCEPT ![incoming.orderId] = inc2,
                                     ![restingOrder.orderId] = rest2],
         trades   |-> <<recordTrade(incoming, restingOrder, tradeQty)>> \o trades,
         orderMap |-> IF isFilled(rest2) THEN orderMap \ {restingOrder.orderId}
                      ELSE orderMap]

\* One iteration of the loop of matchOrders on `level` (lines 223-242): the
\* result is the level, the orders, the trade log and the order lookup after
\* it.  The incoming order is in no queue, so it is not the resting order.
matchOrders(incoming, level) ==
    LET restingOrder == front(level)
        tradeQty == U32Min(getRemainingQuantity(incoming),
                           getRemainingQuantity(restingOrder))
        inc2  == fill(incoming, tradeQty)
        rest2 == fill(restingOrder, tradeQty)
    IN  [level    |-> IF isFilled(rest2) THEN PriceLevel_removeOrder(level, rest2)
                      ELSE level,
         orders   |-> [orders EXCEPT ![incoming.orderId] = inc2,
                                     ![restingOrder.orderId] = rest2],
         trades   |-> Append(trades, recordTrade(incoming, restingOrder, tradeQty)),
         orderMap |-> IF isFilled(rest2) THEN orderMap \ {restingOrder.orderId}
                      ELSE orderMap]

\* (as AfterMatch, with the erase of the empty level forgotten)
AfterMatch_keep(ladder, key, level) == Put(ladder, key, level)

\* the ladder after an iteration of matchOrders on the level at `key`: when
\* the level is empty the loop of matchOrders is over and its caller erases
\* the level (lines 177-179 and 206-208); a level that is not empty stays
AfterMatch(ladder, key, level) ==
    IF isEmpty(level) THEN Erase(ladder, key) ELSE Put(ladder, key, level)

\* the loop of addBuyOrder goes on: the order is not filled, there is an ask
\* level and the price crosses the best one (lines 165-171)
\* (as addBuyOrder_loop, with the price test of line 169 the wrong way round)
addBuyOrder_loop_inverted ==
    /\ ~isFilled(orders[cur])
    /\ DOMAIN asks # {}
    /\ ~(orders[cur].price > asks[asksBegin].price)

addBuyOrder_loop ==
    /\ ~isFilled(orders[cur])
    /\ DOMAIN asks # {}
    /\ ~(orders[cur].price < asks[asksBegin].price)

\* (as addSellOrder_loop, with the price test of line 198 left out)
addSellOrder_loop_noPriceTest ==
    /\ ~isFilled(orders[cur])
    /\ DOMAIN bids # {}

\* the loop of addSellOrder goes on (lines 194-200)
addSellOrder_loop ==
    /\ ~isFilled(orders[cur])
    /\ DOMAIN bids # {}
    /\ ~(orders[cur].price > bids[bidsBegin].price)

\* addBuyOrder, lines 165-180: the loop condition holds and the price
\* crosses; one iteration of matchOrders (one trade) against the best ask
\* level, none if its queue is empty, and the erase of the level once empty
addBuyOrder_match ==
    /\ pc = "addBuyOrder"
    /\ addBuyOrder_loop
    /\ LET bestAsk == asks[asksBegin]
       IN  /\ IF isEmpty(bestAsk)
              THEN /\ asks' = Erase(asks, asksBegin)
                   /\ UNCHANGED <<orders, trades, orderMap>>
              ELSE LET m == matchOrders(orders[cur], bestAsk)
                   IN  /\ asks' = AfterMatch(asks, asksBegin, m.level)
                       /\ orders' = m.orders
                       /\ trades' = m.trades
                       /\ orderMap' = m.orderMap
    /\ UNCHANGED <<bids, nextOrderId, pc, cur, last>>

\* addBuyOrder, lines 165-171 and 183-189: the loop is left; an order that
\* is not filled goes to the back of its bid level; addOrder returns the id
addBuyOrder_rest ==
    /\ pc = "addBuyOrder"
    /\ ~addBuyOrder_loop
    /\ bids' = IF ~isFilled(orders[cur])
               THEN LET p == orders[cur].price
                        priceLevel == IF p \in DOMAIN bids THEN bids[p] ELSE PriceLevel(p)
                    IN  Put(bids, p, PriceLevel_addOrder(priceLevel, orders[cur]))
               ELSE bids
    /\ pc' = "idle"
    /\ UNCHANGED <<orders, asks, orderMap, trades, nextOrderId, cur, last>>

\* addSellOrder, lines 194-209
addSellOrder_match ==
    /\ pc = "addSellOrder"
    /\ addSellOrder_loop
    /\ LET bestBid == bids[bidsBegin]
       IN  /\ IF isEmpty(bestBid)
              THEN /\ bids' = Erase(bids, bidsBegin)
                   /\ UNCHANGED <<orders, trades, orderMap>>
              ELSE LET m == matchOrders(orders[cur], bestBid)
                   IN  /\ bids' = AfterMatch(bids, bidsBegin, m.level)
                       /\ orders' = m.orders
                       /\ trades' = m.trades
                       /\ orderMap' = m.orderMap
    /\ UNCHANGED <<asks, nextOrderId, pc, cur, last>>

\* addSellOrder, lines 194-200 and 212-218
addSellOrder_rest ==
    /\ pc = "addSellOrder"
    /\ ~addSellOrder_loop
    /\ asks' = IF ~isFilled(orders[cur])
               THEN LET p == orders[cur].price
                        priceLevel == IF p \in DOMAIN asks THEN asks[p] ELSE PriceLevel(p)
                    IN  Put(asks, p, PriceLevel_addOrder(priceLevel, orders[cur]))
               ELSE asks
    /\ pc' = "idle"
    /\ UNCHANGED <<orders, bids, orderMap, trades, nextOrderId, cur, last>>

\* the value addOrder returns (line 67), when the call is over
addOrder_result == orders[cur].orderId

\* (as removeOrder, with the removal from the level forgotten)
removeOrder_skip(ladder, o) == ladder

\* OrderBook::removeOrder: the ladder of the order's side after the order
\* has been taken out of the level at its price
removeOrder(ladder, o) ==
    IF o.price \in DOMAIN ladder
    THEN LET level == PriceLevel_removeOrder(ladder[o.price], o)
         IN  IF isEmpty(level) THEN Erase(ladder, o.price)
             ELSE Put(ladder, o.price, level)
    ELSE ladder

\* the value cancelOrder returns (lines 72-80 and 86)
cancelOrder_result(orderId) ==
    /\ orderId \in orderMap
    /\ orders[orderId].status \notin {"FILLED", "CANCELLED"}

cancelOrder(orderId) ==
    /\ pc = "idle"
    /\ IF cancelOrder_result(orderId)
       THEN /\ bids' = IF orders[orderId].side = "BUY"
                       THEN removeOrder(bids, orders[orderId]) ELSE bids
            /\ asks' = IF orders[orderId].side = "BUY"
                       THEN asks ELSE removeOrder(asks, orders[orderId])
            /\ orders' = [orders EXCEPT ![orderId].status = "CANCELLED"]
            /\ orderMap' = orderMap \ {orderId}
            /\ last' = [op |-> "cancelOrder", id |-> orderId]
       ELSE UNCHANGED <<orders, bids, asks, orderMap, last>>
    /\ UNCHANGED <<trades, nextOrderId, pc, cur>>

\* (as modifyLevel, as a cancel and replace: the order goes to the back of
\* the queue of its level)
modifyLevel_replace(ladder, o, newQuantity, oldQuantity) ==
    IF o.price \in DOMAIN ladder
    THEN [ladder EXCEPT ![o.price].totalQuantity =
                            U32Add(@, U32Sub(newQuantity, oldQuantity)),
                        ![o.price].orders =
                            Append(SelectSeq(@, LAMBDA x : x # o.orderId), o.orderId)]
    ELSE ladder

\* modifyOrder, lines 101-111: the level at the order's price on the
\* ladder of its side, when there is one, has its totalQuantity adjusted
modifyLevel(ladder, o, newQuantity, oldQuantity) ==
    IF o.price \in DOMAIN ladder
    THEN [ladder EXCEPT ![o.price].totalQuantity =
              U32Add(@, U32Sub(newQuantity, oldQuantity))]
    ELSE ladder

\* the value modifyOrder returns (lines 91-94 and 113)
modifyOrder_result(orderId) == orderId \in orderMap

\* modifyOrder, lines 96-113, for an id that is in orderMap: the orders and
\* the two ladders when the call returns (line 98 writes the quantity, lines
\* 101-111 the level of the order's side); the call writes nothing else
modifyOrder_orders(orderId, newQuantity) ==
    [orders EXCEPT ![orderId].quantity = U32(newQuantity)]

modifyOrder_bids(orderId, newQuantity) ==
    IF orders[orderId].side = "BUY"
    THEN modifyLevel(bids, orders[orderId], U32(newQuantity), orders[orderId].quantity)
    ELSE bids

modifyOrder_asks(orderId, newQuantity) ==
    IF orders[orderId].side = "BUY"
    THEN asks
    ELSE modifyLevel(asks, orders[orderId], U32(newQuantity), orders[orderId].quantity)

modifyOrder(orderId, newQuantity) ==
    /\ pc = "idle"
    /\ IF modifyOrder_result(orderId)
       THEN /\ orders' = modifyOrder_orders(orderId, newQuantity)
            /\ bids' = modifyOrder_bids(orderId, newQuantity)
            /\ asks' = modifyOrder_asks(orderId, newQuantity)
            /\ last' = [op |-> "modifyOrder", id |-> orderId]
       ELSE UNCHANGED <<orders, bids, asks, last>>
    /\ UNCHANGED <<orderMap, trades, nextOrderId, pc, cur>>

Next ==
    \/ \E p \in Prices, q \in Quantities, s \in Sides, ts \in Timestamps :
          addOrder(p, q, s, ts)
    \/ addBuyOrder_match
    \/ addBuyOrder_rest
    \/ addSellOrder_match
    \/ addSellOrder_rest
    \/ \E id \in CallerIds : cancelOrder(id)
    \/ \E id \in CallerIds, n \in Quantities : modifyOrder(id, n)

Spec == Init /\ [][Next]_vars

\* ------------------------------------------------------------ notions
Idle == pc = "idle"

Range(q) == {q[i] : i \in DOMAIN q}

\* the ladder of a side
Ladder(side) == IF side = "BUY" THEN bids ELSE asks
OppositeSide(side) == IF side = "BUY" THEN "SELL" ELSE "BUY"

\* the order is in the queue of some level of either ladder
InQueue(id) ==
    \/ \E k \in DOMAIN bids : id \in Range(bids[k].orders)
    \/ \E k \in DOMAIN asks : id \in Range(asks[k].orders)

\* the order is resting: queued, with status NEW or PARTIAL_FILL
Resting(id) ==
    /\ id \in DOMAIN orders
    /\ InQueue(id)
    /\ orders[id].status \in {"NEW", "PARTIAL_FILL"}

\* this step appends exactly one trade to the log
TradeStep == Len(trades') = Len(trades) + 1 /\ SubSeq(trades', 1, Len(trades)) = trades
NewTrade == trades'[Len(trades')]
\* the two orders of the trade appended by this step: the aggressor is the
\* order the running addOrder call is adding, the maker is the other one
Aggressor == cur
Maker == IF NewTrade.buyOrderId = cur THEN NewTrade.sellOrderId ELSE NewTrade.buyOrderId

\* ------------------------------------------------------------- claims

\* C1: after every call has returned, when both ladders are non-empty the
\* highest bid price is strictly below the lowest ask price.
C1_NotCrossed ==
    (Idle /\ DOMAIN bids # {} /\ DOMAIN asks # {}) => getBestBid < getBestAsk

\* both sides hold a level after an order traded and rested its residual
C1_Witness ==
    /\ Idle
    /\ DOMAIN bids # {}
    /\ DOMAIN asks # {}
    /\ trades # <<>>
    /\ Resting(cur)
    /\ orders[cur].status = "PARTIAL_FILL"

\* the sum, as a uint32_t, of the remaining quantities of the orders of a queue
RECURSIVE SumRemaining(_)
SumRemaining(q) ==
    IF q = <<>> THEN U32(0)
    ELSE U32Add(getRemainingQuantity(orders[Head(q)]), SumRemaining(Tail(q)))

\* C2: after every call has returned, the totalQuantity of every level of
\* either ladder is the sum of the remaining quantities of the orders in its
\* queue (so that a trade of q units lowers the total of the level by q).
C2_TotalIsSumOfRemaining ==
    Idle => /\ \A k \in DOMAIN bids : bids[k].totalQuantity = SumRemaining(bids[k].orders)
            /\ \A k \in DOMAIN asks : asks[k].totalQuantity = SumRemaining(asks[k].orders)

\* every queue is in ascending order of order id (of submission)
QueueAscending(q) == \A i, j \in DOMAIN q : i < j => q[i] < q[j]

QueuesAscending ==
    /\ \A k \in DOMAIN bids : QueueAscending(bids[k].orders)
    /\ \A k \in DOMAIN asks : QueueAscending(asks[k].orders)

\* the maker of the trade this step appends was queued, before the step, at
\* the level of its price on the ladder opposite to the aggressor, and no
\* order submitted before it was in that queue
MakerIsEarliest ==
    LET ladder == Ladder(OppositeSide(orders[Aggressor].side))
        key == orders[Maker].price
    IN  /\ key \in DOMAIN ladder
        /\ Maker \in Range(ladder[key].orders)
        /\ Maker = Head(ladder[key].orders)
        /\ \A a \in Range(ladder[key].orders) : a >= Maker

\* C3: FIFO within a level: every queue is always in ascending order of order
\* id, and the resting order of every trade is the front order of its queue,
\* so no order trades while an earlier one rests at the same level.
C3_FifoWithinLevel ==
    /\ []QueuesAscending
    /\ [][TradeStep => MakerIsEarliest]_vars

\* the first of two orders queued at one level has traded and left, the
\* second is now the front of that level
C3_Witness ==
    /\ Idle
    /\ trades # <<>>
    /\ LET t == trades[Len(trades)]
           mk == IF t.buyOrderId = cur THEN t.sellOrderId ELSE t.buyOrderId
           ladder == Ladder(orders[mk].side)
       IN  /\ mk # cur
           /\ orders[mk].status = "FILLED"
           /\ orders[mk].price \in DOMAIN ladder
           /\ Head(ladder[orders[mk].price].orders) > mk

\* the maker of the trade this step appends sat at the best level of the
\* ladder opposite to the aggressor
MakerAtBestLevel ==
    LET side == orders[Aggressor].side
        ladder == Ladder(OppositeSide(side))
        key == orders[Maker].price
    IN  /\ key \in DOMAIN ladder
        /\ Maker \in Range(ladder[key].orders)
        /\ side = "BUY" => \A k \in DOMAIN ladder : k >= key
        /\ side = "SELL" => \A k \in DOMAIN ladder : k <= key

\* the trade this step appends and the trade before it, when both are of
\* the same aggressor, have prices in the order of the aggressor's side
PricesInOrder ==
    trades # <<>> =>
        LET prev == trades[Len(trades)]
            side == orders[Aggressor].side
        IN  /\ (side = "BUY" /\ prev.buyOrderId = Aggressor) => prev.price <= NewTrade.price
            /\ (side = "SELL" /\ prev.sellOrderId = Aggressor) => prev.price >= NewTrade.price

\* C4: best price first: at every trade the resting order sits at the best
\* level of the opposite ladder, so the trades of one addOrder call have
\* non-decreasing prices for a BUY and non-increasing prices for a SELL.
C4_BestPriceFirst == [][TradeStep => (MakerAtBestLevel /\ PricesInOrder)]_vars

\* one order has walked two levels: its last two trades are at two prices
C4_Witness ==
    /\ Len(trades) >= 2
    /\ LET t1 == trades[Len(trades) - 1]
           t2 == trades[Len(trades)]
       IN  /\ t1.price # t2.price
           /\ \/ t1.buyOrderId = cur /\ t2.buyOrderId = cur
              \/ t1.sellOrderId = cur /\ t2.sellOrderId = cur

\* the trade this step appends is at the limit price of its maker, which is
\* the key and the price of the level the maker was queued in, carries the
\* timestamp of the aggressor, and names the BUY order as buyer and the SELL
\* order as seller
TradeAsClaimed ==
    LET ladder == Ladder(OppositeSide(orders[Aggressor].side))
        key == orders[Maker].price
    IN  /\ {NewTrade.buyOrderId, NewTrade.sellOrderId} = {Aggressor, Maker}
        /\ Maker # Aggressor
        /\ key \in DOMAIN ladder
        /\ Maker \in Range(ladder[key].orders)
        /\ NewTrade.price = key
        /\ NewTrade.price = ladder[key].price
        /\ NewTrade.timestamp = orders[Aggressor].timestamp
        /\ orders[NewTrade.buyOrderId].side = "BUY"
        /\ orders[NewTrade.sellOrderId].side = "SELL"

\* C5: every trade has the limit price of the resting order it was executed
\* against (the key of its level) and the timestamp given to the addOrder
\* call of the incoming order; buy id and sell id name the BUY and the SELL
\* order of the pair.
C5_TradePriceAndTimestamp == [][TradeStep => TradeAsClaimed]_vars

\* a trade between two orders of different limit prices and timestamps
C5_Witness ==
    \E i \in DOMAIN trades :
        /\ orders[trades[i].buyOrderId].price # orders[trades[i].sellOrderId].price
        /\ orders[trades[i].buyOrderId].timestamp # orders[trades[i].sellOrderId].timestamp

\* C6: every trade in the trade log has a quantity greater than 0.
C6_TradeQuantityPositive ==
    \A i \in DOMAIN trades : U32Less(U32(0), trades[i].quantity)

\* C7: cancelOrder(id) returns true exactly when, right before the call, the
\* order is resting in a level queue with status NEW or PARTIAL_FILL.
C7_CancelTrueIffResting ==
    Idle => \A id \in CallerIds : cancelOrder_result(id) <=> Resting(id)

\* the level queue without the order
Without(q, id) == SelectSeq(q, LAMBDA x : x # id)

\* the effect of a cancelOrder(id) that returns true, as claimed: the order
\* leaves the queue of its level, whose total goes down by its remaining
\* quantity and which is erased when its queue is empty; the order is
\* CANCELLED and out of the lookup; nothing else changes
CancelEffect(id) ==
    LET o == orders[id]
        ladder == Ladder(o.side)
        ladderAfter == IF o.side = "BUY" THEN bids' ELSE asks'
        key == o.price
    IN  /\ key \in DOMAIN ladder
        /\ id \in Range(ladder[key].orders)
        /\ IF Without(ladder[key].orders, id) = <<>>
           THEN key \notin DOMAIN ladderAfter
           ELSE /\ key \in DOMAIN ladderAfter
                /\ ladderAfter[key].orders = Without(ladder[key].orders, id)
                /\ ladderAfter[key].totalQuantity =
                       U32Sub(ladder[key].totalQuantity, getRemainingQuantity(o))
                /\ ladderAfter[key].price = ladder[key].price
        /\ (DOMAIN ladderAfter) \ {key} = (DOMAIN ladder) \ {key}
        /\ \A k \in (DOMAIN ladder) \ {key} : ladderAfter[k] = ladder[k]
        /\ IF o.side = "BUY" THEN asks' = asks ELSE bids' = bids
        /\ orders' = [orders EXCEPT ![id].status = "CANCELLED"]
        /\ id \in orderMap
        /\ orderMap' = orderMap \ {id}
        /\ trades' = trades

\* C8: a cancelOrder(id) that returns true removes exactly that order from
\* its level queue, lowers the total of the level by its remaining quantity,
\* erases the level if it is empty, sets the status to CANCELLED, removes
\* the id from the lookup and leaves everything else as it was.
C8_CancelEffect ==
    [][\A id \in CallerIds :
          (cancelOrder(id) /\ cancelOrder_result(id)) => CancelEffect(id)]_vars

\* the id was never issued, or its order is FILLED or CANCELLED
TerminalOrUnknown(id) ==
    \/ id \notin DOMAIN orders
    \/ orders[id].status \in {"FILLED", "CANCELLED"}

\* C9: cancelOrder and modifyOrder on an id that was never issued or whose
\* order is terminal return false and change nothing.
C9_NoOpOnTerminalOrUnknown ==
    /\ [](Idle => \A id \in CallerIds :
             TerminalOrUnknown(id) =>
                 (~cancelOrder_result(id) /\ ~modifyOrder_result(id)))
    /\ [][\A id \in CallerIds, n \in Quantities :
             (TerminalOrUnknown(id) /\ (cancelOrder(id) \/ modifyOrder(id, n))) =>
                 UNCHANGED <<orders, bids, asks, orderMap, trades>>]_vars

\* C10: modifyOrder(id, n) on a resting order with n at most its filled
\* quantity returns true, makes the order FILLED, takes it out of its queue
\* and of the lookup, leaves its remaining quantity at zero and appends no
\* trade.
C10_ModifyBelowFilled ==
    [][\A id \in CallerIds, n \in Quantities :
          (/\ modifyOrder(id, n)
           /\ Resting(id)
           /\ ~U32Less(orders[id].filledQuantity, U32(n))) =>
              /\ modifyOrder_result(id)
              /\ orders'[id].status = "FILLED"
              /\ ~InQueue(id)'
              /\ id \notin orderMap'
              /\ getRemainingQuantity(orders'[id]) = U32(0)
              /\ trades' = trades]_vars

\* the level of `ladder` at `key` holds the same orders in the same sequence
\* at the same price in `ladderAfter`, with its total changed by `delta`
SameQueueAt(ladder, ladderAfter, key, delta) ==
    /\ key \in DOMAIN ladderAfter
    /\ ladderAfter[key].orders = ladder[key].orders
    /\ ladderAfter[key].price = ladder[key].price
    /\ ladderAfter[key].totalQuantity = U32Add(ladder[key].totalQuantity, delta)

\* the effect of modifyOrder(id, n) on a resting order, as claimed for n
\* above the filled quantity: only the quantity of the order and the total of
\* its own level change, the latter by n minus the old quantity
ModifyEffect(id, n) ==
    LET o == orders[id]
        delta == U32Sub(U32(n), o.quantity)
    IN  /\ modifyOrder_orders(id, n) = [orders EXCEPT ![id].quantity = U32(n)]
        /\ DOMAIN modifyOrder_bids(id, n) = DOMAIN bids
        /\ DOMAIN modifyOrder_asks(id, n) = DOMAIN asks
        /\ o.price \in DOMAIN Ladder(o.side)
        /\ id \in Range(Ladder(o.side)[o.price].orders)
        /\ \A k \in DOMAIN bids :
              SameQueueAt(bids, modifyOrder_bids(id, n), k,
                          IF o.side = "BUY" /\ k = o.price THEN delta ELSE U32(0))
        /\ \A k \in DOMAIN asks :
              SameQueueAt(asks, modifyOrder_asks(id, n), k,
                          IF o.side = "SELL" /\ k = o.price THEN delta ELSE U32(0))

\* a step of a modifyOrder call that returned true (a step between calls after
\* which the last successful call is a modifyOrder) leaves the order lookup
\* and the trade log as they were
ModifyFrame ==
    (pc = "idle" /\ pc' = "idle" /\ last'.op = "modifyOrder") =>
        (orderMap' = orderMap /\ trades' = trades)

MalformedCall ==
    /\ ~Idle
    /\ orders[cur].price = 0 \/ orders[cur].quantity = U32(0)

\* C12: addOrder with quantity 0 or price 0 is rejected without mutating the
\* book: ladders, order lookup and trade log are unchanged by the call, the
\* order has status REJECTED (never NEW), never rests and can never be
\* cancelled or modified successfully.
C12_MalformedRejected ==
    /\ [][\A p \in Prices, q \in Quantities, s \in Sides, ts \in Timestamps :
             (addOrder(p, q, s, ts) /\ (q = 0 \/ p = 0)) =>
                 /\ orders'[nextOrderId].status = "REJECTED"
                 /\ UNCHANGED <<bids, asks, orderMap, trades>>]_vars
    /\ [][MalformedCall => UNCHANGED <<bids, asks, orderMap, trades>>]_vars
    /\ [](\A id \in DOMAIN orders :
             (orders[id].price = 0 \/ orders[id].status = "REJECTED") =>
                 /\ orders[id].status # "NEW"
                 /\ ~InQueue(id)
                 /\ ~cancelOrder_result(id)
                 /\ ~modifyOrder_result(id))

\* the k-th order made has id k, and the counter is one past the last id
IdsIssued ==
    /\ \A i \in DOMAIN orders : orders[i].orderId = i
    /\ nextOrderId = Len(orders) + 1

\* this step is the return of an addOrder call
ReturnStep == ~Idle /\ Idle'

\* C13: the ids returned by successive addOrder calls start at 1 and each is
\* the previous plus 1, whatever cancelOrder and modifyOrder calls come in
\* between and whether or not the order was filled at once: the k-th call
\* returns k, and no id is returned twice.
C13_MonotoneIds ==
    /\ []IdsIssued
    /\ [][ReturnStep => (addOrder_result' = Len(orders') /\ addOrder_result' = last'.id)]_vars
    /\ [][nextOrderId' # nextOrderId =>
             (Idle /\ nextOrderId' = nextOrderId + 1 /\ Len(orders') = Len(orders) + 1)]_vars

\* three calls have returned 1, 2 and 3: order 1 was cancelled, order 3 was
\* filled at once against order 2
C13_Witness ==
    /\ Idle
    /\ Len(orders) >= 3
    /\ addOrder_result = 3
    /\ orders[1].status = "CANCELLED"
    /\ orders[3].status = "FILLED"
    /\ \E i \in DOMAIN trades :
          {trades[i].buyOrderId, trades[i].sellOrderId} = {2, 3}

\* the sum, as a uint32_t, of the quantities of the trades of a log that
\* name the order as buyer or as seller
RECURSIVE Fills(_, _)
Fills(log, id) ==
    IF log = <<>> THEN U32(0)
    ELSE U32Add(IF id \in {Head(log).buyOrderId, Head(log).sellOrderId}
                THEN Head(log).quantity ELSE U32(0),
                Fills(Tail(log), id))

\* a + b = c as natural numbers: the uint32_t sum is c and did not wrap
ExactSum(a, b, c) == U32Add(a, b) = c /\ ~U32Less(U32Add(a, b), a)

\* the remaining quantity of an order that is CANCELLED (its fields are
\* those of the moment of the cancel), 0 for any other order
CancelledRemaining(id) ==
    IF orders[id].status = "CANCELLED" THEN getRemainingQuantity(orders[id]) ELSE U32(0)

\* the remaining quantity of an order that is resting, 0 for any other order
RestingRemaining(id) ==
    IF Resting(id) THEN getRemainingQuantity(orders[id]) ELSE U32(0)

\* C14: conservation: between calls, for every order, the quantities of the
\* trades naming it, plus its remaining quantity when it was cancelled, plus
\* its remaining quantity if it is resting, add up to its current quantity.
C14_Conservation ==
    Idle => \A id \in DOMAIN orders :
                /\ ExactSum(CancelledRemaining(id), RestingRemaining(id),
                            U32Add(CancelledRemaining(id), RestingRemaining(id)))
                /\ ExactSum(Fills(trades, id),
                            U32Add(CancelledRemaining(id), RestingRemaining(id)),
                            orders[id].quantity)

\* the places of an order in the queues of a ladder: <<side, key, position>>
PlacesOn(side, ladder, id) ==
    UNION {{<<side, k, i>> : i \in {j \in DOMAIN ladder[k].orders :
                                       ladder[k].orders[j] = id}} :
           k \in DOMAIN ladder}

Places(id) == PlacesOn("BUY", bids, id) \cup PlacesOn("SELL", asks, id)

\* C15: after every call has returned, every id in the order lookup is of an
\* order with status NEW or PARTIAL_FILL that is in exactly one level queue
\* (a FILLED or CANCELLED order is out of the lookup).
C15_IndexHoldsRestingOnly ==
    Idle => \A id \in orderMap :
                /\ orders[id].status \in {"NEW", "PARTIAL_FILL"}
                /\ Cardinality(Places(id)) = 1

\* every queued order is in the lookup, has one place in the queues, and
\* that place is on the ladder of its side at the key of its price; the
\* price of every level is its key
QueuedOrdersIndexed ==
    /\ \A id \in DOMAIN orders :
          InQueue(id) =>
              /\ id \in orderMap
              /\ orders[id].orderId = id
              /\ Cardinality(Places(id)) = 1
              /\ \A pl \in Places(id) :
                    pl[1] = orders[id].side /\ pl[2] = orders[id].price
    /\ \A k \in DOMAIN bids :
          bids[k].price = k /\ Range(bids[k].orders) \subseteq DOMAIN orders
    /\ \A k \in DOMAIN asks :
          asks[k].price = k /\ Range(asks[k].orders) \subseteq DOMAIN orders

\* C16: after every call has returned, every order in a level queue is in
\* the order lookup under its id, occurs once in one queue over both
\* ladders, on the ladder of its side under the key of its price, and the
\* price of every level is its key.
C16_QueuedOrdersIndexed == Idle => QueuedOrdersIndexed

\* the last call cancelled one of two orders of a level, the other is still
\* queued, and an order is queued on the other ladder too
C16_Witness ==
    /\ Idle
    /\ last.op = "cancelOrder"
    /\ LET o == orders[last.id]
       IN  /\ o.price \in DOMAIN Ladder(o.side)
           /\ Ladder(o.side)[o.price].orders # <<>>
           /\ DOMAIN Ladder(OppositeSide(o.side)) # {}

\* the keys of the levels of a ladder that hold at least one order
NonEmptyLevels(ladder) == {k \in DOMAIN ladder : ladder[k].orders # <<>>}

\* C17: after every call has returned no level of either ladder has an empty
\* queue, so getBidDepth and getAskDepth count only levels that hold an order.
C17_NoEmptyLevel ==
    Idle => /\ \A k \in DOMAIN bids : ~isEmpty(bids[k])
            /\ \A k \in DOMAIN asks : ~isEmpty(asks[k])
            /\ getBidDepth = Cardinality(NonEmptyLevels(bids))
            /\ getAskDepth = Cardinality(NonEmptyLevels(asks))

\* the last order of a level has left it, by a trade or by a cancel, and the
\* level is gone while another level of that ladder is still there
C17_Witness ==
    /\ Idle
    /\ \E id \in DOMAIN orders :
          /\ orders[id].status \in {"FILLED", "CANCELLED"}
          /\ last.id = IF orders[id].status = "CANCELLED" THEN id ELSE cur
          /\ last.op = IF orders[id].status = "CANCELLED" THEN "cancelOrder" ELSE "addOrder"
          /\ id # cur
          /\ orders[id].price \notin DOMAIN Ladder(orders[id].side)
          /\ DOMAIN Ladder(orders[id].side) # {}

\* C18: for every order, in every reachable state, the filled quantity is at
\* most the quantity, so that the remaining quantity never wraps around.
C18_FilledAtMostQuantity ==
    \A id \in DOMAIN orders : ~U32Less(orders[id].quantity, orders[id].filledQuantity)

\* the moves of a status that the two paths allow, a stage skipped or not
Forward(s, t) ==
    \/ s = t
    \/ s = "NEW" /\ t \in {"PARTIAL_FILL", "FILLED", "CANCELLED"}
    \/ s = "PARTIAL_FILL" /\ t \in {"FILLED", "CANCELLED"}

Terminal(id) == orders[id].status \in {"FILLED", "CANCELLED"}

\* the trades this step adds to the log
LaterTrades == {trades'[i] : i \in (DOMAIN trades') \ (DOMAIN trades)}

\* C19: in every step the status of every order moves forward along
\* NEW -> PARTIAL_FILL -> FILLED or from NEW/PARTIAL_FILL to CANCELLED or
\* stays; an order that is FILLED or CANCELLED keeps its status, quantity and
\* filledQuantity, is in no queue afterwards and is in no trade of the step.
C19_StatusMonotone ==
    [][\A id \in DOMAIN orders :
          /\ Forward(orders[id].status, orders'[id].status)
          /\ Terminal(id) =>
                /\ orders'[id].status = orders[id].status
                /\ orders'[id].quantity = orders[id].quantity
                /\ orders'[id].filledQuantity = orders[id].filledQuantity
                /\ ~InQueue(id)'
                /\ \A t \in LaterTrades : id \notin {t.buyOrderId, t.sellOrderId}]_vars

\* the log before the step is a prefix of the log after it
C20_Prefix ==
    /\ Len(trades) <= Len(trades')
    /\ SubSeq(trades', 1, Len(trades)) = trades

\* C20: across every step the trade log before is a prefix of the trade log
\* after; a step that changes the log is a step of a running addOrder call
\* and is no cancelOrder and no modifyOrder call, whatever they return.
C20_TradeLogAppendOnly ==
    [][/\ C20_Prefix
       /\ trades' # trades =>
             /\ pc \in {"addBuyOrder", "addSellOrder"}
             /\ \A id \in CallerIds :
                   /\ ~cancelOrder(id)
                   /\ \A n \in Quantities : ~modifyOrder(id, n)]_vars

\* the log holds two trades of one addOrder call, whose order then rested its
\* residual, and the last successful call is a modifyOrder of that order
C20_Witness ==
    /\ Idle
    /\ Len(trades) = 2
    /\ last = [op |-> "modifyOrder", id |-> cur]
    /\ Resting(cur)
    /\ DOMAIN Ladder(OppositeSide(orders[cur].side)) = {}

\* the trade is at a price no worse than the limit of either of its orders,
\* and its two orders are different
WithinLimits(t) ==
    /\ t.buyOrderId \in DOMAIN orders
    /\ t.sellOrderId \in DOMAIN orders
    /\ t.price <= orders[t.buyOrderId].price
    /\ t.price >= orders[t.sellOrderId].price
    /\ t.buyOrderId # t.sellOrderId

\* C21: in every reachable state, for every trade in the log, the trade price
\* is at most the limit price of the order named as buy id and at least the
\* limit price of the order named as sell id, and the two ids are different.
C21_NoTradeWorseThanLimit == \A i \in DOMAIN trades : WithinLimits(trades[i])

\* trades at a price strictly better than the limit of the aggressor, at the
\* price of the resting order: a buy order took a sell order priced below its
\* limit, and a sell order took a buy order priced above its limit
C21_Witness ==
    /\ \E i \in DOMAIN trades :
          /\ trades[i].price < orders[trades[i].buyOrderId].price
          /\ trades[i].price = orders[trades[i].sellOrderId].price
    /\ \E i \in DOMAIN trades :
          /\ trades[i].price > orders[trades[i].sellOrderId].price
          /\ trades[i].price = orders[trades[i].buyOrderId].price

====
